---- MODULE Spec2Model ----
(***************************************************************************)
(* Model of cfme/utils/events.py: EventTool, EventAttr, Event and the      *)
(* EventListener thread, together with the two collaborators the listener  *)
(* talks to (the event_streams collection and the object collections).     *)
(*                                                                         *)
(* Two threads of control are modelled: the driving (test) thread, which   *)
(* calls start/stop/listen_to/reset_events, and the listener thread, which *)
(* runs process_events.  Every step of process_events that reads or writes *)
(* shared state is one action, so the driving thread interleaves between   *)
(* any two of them.                                                        *)
(***************************************************************************)
EXTENDS Integers, Sequences, FiniteSets, TLC

VARIABLES
    stream,             \* event_streams collection: sequence of entities, id = position
    objects,            \* object collections of the appliance: set of [coll, name, id]
    events_to_listen,   \* EventListener._events_to_listen
    last_processed_id,  \* EventListener._last_processed_id
    stop_event,         \* EventListener._stop_event (is_set)
    pc,                 \* position of the listener thread in process_events
    iterList,           \* the list object the for loop iterates, once it is no longer
                        \* the one bound to _events_to_listen
    detached,           \* TRUE when the for loop iterates iterList
    idx,                \* index of the next item of the for loop's list iterator
    cur,                \* index of exp_event in the iterated list
    portion,            \* matched_events of process_events: entities not yet processed
    thread_exc,         \* exception that ended the listener thread, "none" otherwise
    listen_calls,       \* number of events the test has passed to listen_to
    args,               \* arguments of the call under test of a function of the module
    ret                 \* what that call returned or raised

vars == <<stream, objects, events_to_listen, last_processed_id, stop_event, pc,
          iterList, detached, idx, cur, portion, thread_exc, listen_calls, args, ret>>

envVars  == <<stream, objects>>
callVars == <<args, ret>>
testVars == <<listen_calls, args, ret>>
loopVars == <<pc, iterList, detached, idx, cur, portion, thread_exc>>

(***************************************************************************)
(* Bounds of the model.                                                    *)
(***************************************************************************)
MaxEvents == 2
MaxSubs == 2

\* the calls of one function on one object in the specifications that call a
\* single function repeatedly
MaxCalls == 2

\* the method calls made on one Event
MaxOps == 4

(***************************************************************************)
(* Python values.  A value is a tagged tuple so that None, 0, "" and       *)
(* ordinary values stay distinct and comparable.                           *)
(***************************************************************************)
None == <<"none">>
PyInt(n) == <<"int", n>>
PyStr(s) == <<"str", s>>
PyBool(b) == <<"bool", b>>

\* bool(v): the truth value Python gives v
Truthy(v) ==
    CASE v[1] = "none" -> FALSE
      [] v[1] = "int"  -> v[2] # 0
      [] v[1] = "str"  -> v[2] # ""
      [] v[1] = "bool" -> v[2]

AsInt(v) == IF v[1] = "bool" THEN (IF v[2] THEN 1 ELSE 0) ELSE v[2]

\* a == b in Python (bool is a subclass of int: True == 1, False == 0)
PyEq(a, b) ==
    IF a[1] = b[1] THEN a = b
    ELSE IF {a[1], b[1]} = {"int", "bool"} THEN AsInt(a) = AsInt(b)
    ELSE FALSE

\* isinstance(v, Number)
IsNumber(v) == v[1] \in {"int", "bool"}

\* a Python object passed as an argument: its class and its content
Instance(cls, obj) == [cls |-> cls, obj |-> obj]

isinstance(x, cls) == x.cls = cls

\* id > watermark as the event source evaluates Q('id', '>', watermark); an unset
\* watermark (None) is below every id
IdGreater(id, w) == IF w = None THEN TRUE ELSE id[2] > w[2]

(***************************************************************************)
(* EventTool                                                               *)
(***************************************************************************)
\* EventTool.TARGET_TYPES: target_type -> REST collection
TARGET_TYPES ==
    [t \in {"VmOrTemplate", "Host", "Service"} |->
        CASE t = "VmOrTemplate" -> "vms"
          [] t = "Host"         -> "hosts"
          [] t = "Service"      -> "services"]

\* the filter applied to the name of the collection instead of the object's
CollectionFilterByColl(coll, name) ==
    {o.id : o \in {x \in objects : x.coll = coll /\ PyStr(x.coll) = name}}

\* target_collection.filter(Q('name', '=', target_name)): the ids of the objects of
\* the collection that carry the name
CollectionFilter(coll, name) ==
    {o.id : o \in {x \in objects : x.coll = coll /\ PyStr(x.name) = name}}

\* EventTool.process_id with the TARGET_TYPES test made first
process_id_type_first(target_type, target_name) ==
    IF ~(target_type[1] = "str" /\ target_type[2] \in DOMAIN TARGET_TYPES)
    THEN {[exc |-> "TypeError", id |-> None, queried |-> FALSE]}
    ELSE IF IsNumber(target_name)
    THEN {[exc |-> "none", id |-> target_name, queried |-> FALSE]}
    ELSE LET o == CollectionFilter(TARGET_TYPES[target_type[2]], target_name)
         IN  IF o = {}
             THEN {[exc |-> "ValueError", id |-> None, queried |-> TRUE]}
             ELSE {[exc |-> "none", id |-> PyInt(i), queried |-> TRUE] : i \in o}

\* EventTool.process_id: the outcomes of one call.  The call returns the id
\* ([exc |-> "none", id |-> ...]) or raises ([exc |-> "TypeError"], [exc |->
\* "ValueError"]); with several objects of that name the collection decides
\* which one comes first.  queried tells whether the call has filtered a
\* collection.
process_id(target_type, target_name) ==
    IF IsNumber(target_name)
    THEN {[exc |-> "none", id |-> target_name, queried |-> FALSE]}
    ELSE IF ~(target_type[1] = "str" /\ target_type[2] \in DOMAIN TARGET_TYPES)
    THEN {[exc |-> "TypeError", id |-> None, queried |-> FALSE]}
    ELSE LET o == CollectionFilter(TARGET_TYPES[target_type[2]], target_name)
         IN  IF o = {}
             THEN {[exc |-> "ValueError", id |-> None, queried |-> TRUE]}
             ELSE {[exc |-> "none", id |-> PyInt(i), queried |-> TRUE] : i \in o}

(***************************************************************************)
(* EventAttr                                                               *)
(***************************************************************************)
\* no cmp_func given
NoCmp == "None"

\* EventAttr(cmp_func=cmp, **{name: value})
EventAttr(name, value, cmp) == [name |-> name, value |-> value, cmp_func |-> cmp]

\* the cmp_func callables the model passes: any value of the same Python type is
\* accepted by "same_type"
ApplyCmp(cmp, a, b) ==
    CASE cmp = "same_type" -> a[1] = b[1]
      [] OTHER -> FALSE

\* the test of EventAttr.match without its isinstance half
match_raises_by_name(self, attr) == self.name # attr.obj.name

\* EventAttr.match raises ValueError('Incorrect attribute is passed'): attr is
\* the object passed, of class EventAttr or not
match_raises(self, attr) ==
    ~isinstance(attr, "EventAttr") \/ self.name # attr.obj.name

\* EventAttr.match, for an attr of the same name
match(self, attr) ==
    IF ~Truthy(attr.value) \/ ~Truthy(self.value)
    THEN attr.value = None /\ self.value = None
    ELSE IF self.cmp_func # NoCmp
    THEN ApplyCmp(self.cmp_func, self.value, attr.value)
    ELSE PyEq(self.value, attr.value)

\* a call self.match(attr): what it raises or returns, and the two objects after
\* the call
match_call(self, attr) ==
    IF match_raises(self, attr)
    THEN [exc |-> "ValueError", self |-> self, attr |-> attr]
    ELSE [exc |-> "none", ret |-> match(self, attr.obj), self |-> self, attr |-> attr]

(***************************************************************************)
(* Event: event_attrs is a function from the stored names to EventAttr     *)
(***************************************************************************)
\* Event.DEFAULT_ATTRS
DEFAULT_ATTRS ==
    {"created_on", "event_type", "href", "id", "message", "source", "target_id",
     "target_type", "timestamp"}

\* Event(event_tool): no attributes yet
EmptyEvent == [n \in {} |-> EventAttr(n, None, NoCmp)]

\* Event.add_attrs storing an attribute of any name
add_attrs_any(evt, attr) ==
    [n \in DOMAIN evt \cup {attr.name} |-> IF n = attr.name THEN attr ELSE evt[n]]

\* Event.add_attrs with one attribute
add_attrs(evt, attr) ==
    IF attr.name = "target_name" \/ attr.name \in DEFAULT_ATTRS
    THEN [n \in DOMAIN evt \cup {attr.name} |-> IF n = attr.name THEN attr ELSE evt[n]]
    ELSE evt

\* the fields an entity of event_streams exposes in the model; getattr of any other
\* default attribute yields None
EntityFields == {"id", "event_type", "target_type", "target_id", "source", "message"}

\* Event.build_from_entity
build_from_entity(entity) ==
    [key \in DEFAULT_ATTRS |->
        EventAttr(key, IF key \in EntityFields THEN entity[key] ELSE None, NoCmp)]

\* self.build_from_entity(event_entity) on an event that may hold attributes
\* already: one add_attrs for each key of DEFAULT_ATTRS
RECURSIVE build_from_entity_keys(_, _, _)
build_from_entity_keys(self, event_entity, keys) ==
    IF keys = {} THEN self
    ELSE LET key == CHOOSE k \in keys : TRUE
             value == IF key \in DOMAIN event_entity THEN event_entity[key] ELSE None
         IN  build_from_entity_keys(add_attrs(self, EventAttr(key, value, NoCmp)),
                                    event_entity, keys \ {key})

build_from_entity_self(self, event_entity) ==
    build_from_entity_keys(self, event_entity, DEFAULT_ATTRS)

\* Event.matches returning on the first attribute that matches
matches_any(self, evt) ==
    LET common_attrs == DOMAIN self \cap DOMAIN evt
    IN  \E attr \in common_attrs : match(self[attr], evt[attr])

\* Event.matches going through every attribute of self, a missing counterpart
\* counting as a mismatch
matches_self_attrs(self, evt) ==
    \A attr \in DOMAIN self : attr \in DOMAIN evt /\ match(self[attr], evt[attr])

\* for attr in common_attrs: return False on the first attribute that does not
\* match, else: return True
RECURSIVE matches_loop(_, _, _)
matches_loop(self, evt, common_attrs) ==
    IF common_attrs = {} THEN TRUE
    ELSE LET attr == CHOOSE a \in common_attrs : TRUE
         IN  IF ~match(self[attr], evt[attr]) THEN FALSE
             ELSE matches_loop(self, evt, common_attrs \ {attr})

\* Event.matches
matches(self, evt) == matches_loop(self, evt, DOMAIN self \cap DOMAIN evt)

\* Event.add_target_id without the test for a target_id that is there already
add_target_id_again(evt) ==
    IF "target_name" \in DOMAIN evt
    THEN IF "target_type" \notin DOMAIN evt
         THEN {[exc |-> "KeyError", evt |-> evt]}
         ELSE {CASE r.exc = "none" ->
                     [exc |-> "none",
                      evt |-> [n \in DOMAIN evt \cup {"target_id"} |->
                                 IF n = "target_id"
                                 THEN EventAttr("target_id", r.id, NoCmp)
                                 ELSE evt[n]]]
                 [] r.exc = "ValueError" -> [exc |-> "none", evt |-> evt]
                 [] OTHER -> [exc |-> r.exc, evt |-> evt]
               : r \in process_id(evt["target_type"].value, evt["target_name"].value)}
    ELSE {[exc |-> "none", evt |-> evt]}

\* Event.add_target_id without the except clause: the ValueError of process_id
\* leaves the call
add_target_id_uncaught(evt) ==
    IF "target_name" \in DOMAIN evt /\ "target_id" \notin DOMAIN evt
    THEN IF "target_type" \notin DOMAIN evt
         THEN {[exc |-> "KeyError", evt |-> evt]}
         ELSE {IF r.exc = "none"
               THEN [exc |-> "none",
                     evt |-> [n \in DOMAIN evt \cup {"target_id"} |->
                                IF n = "target_id"
                                THEN EventAttr("target_id", r.id, NoCmp)
                                ELSE evt[n]]]
               ELSE [exc |-> r.exc, evt |-> evt]
               : r \in process_id(evt["target_type"].value, evt["target_name"].value)}
    ELSE {[exc |-> "none", evt |-> evt]}

\* Event.add_target_id: the outcomes of one call, each the exception that leaves
\* the call ("none" when it returns) and the event's attributes afterwards
add_target_id(evt) ==
    IF "target_name" \in DOMAIN evt /\ "target_id" \notin DOMAIN evt
    THEN IF "target_type" \notin DOMAIN evt
         THEN {[exc |-> "KeyError", evt |-> evt]}
         ELSE {CASE r.exc = "none" ->
                     [exc |-> "none",
                      evt |-> [n \in DOMAIN evt \cup {"target_id"} |->
                                 IF n = "target_id"
                                 THEN EventAttr("target_id", r.id, NoCmp)
                                 ELSE evt[n]]]
                 [] r.exc = "ValueError" -> [exc |-> "none", evt |-> evt]
                 [] OTHER -> [exc |-> r.exc, evt |-> evt]
               : r \in process_id(evt["target_type"].value, evt["target_name"].value)}
    ELSE {[exc |-> "none", evt |-> evt]}

(***************************************************************************)
(* Inputs of the model: the events the appliance emits, the objects it     *)
(* creates and the expectations the test registers.                        *)
(***************************************************************************)
Payload(tid, msg) ==
    [event_type |-> PyStr("vm_create"), target_type |-> PyStr("VmOrTemplate"),
     target_id |-> PyInt(tid), source |-> PyStr("VC"), message |-> PyStr(msg)]

EventPool == {Payload(1, "ok"), Payload(2, "failed")}

ObjectPool == {[coll |-> "vms", name |-> "vm1", id |-> 1]}

\* EventListener.new_event(**kwattrs): kwattrs is a function name -> value
RECURSIVE new_event_from(_, _, _)
new_event_from(event, kwattrs, names) ==
    IF names = {} THEN event
    ELSE LET name == CHOOSE n \in names : TRUE
         IN  new_event_from(add_attrs(event, EventAttr(name, kwattrs[name], NoCmp)),
                            kwattrs, names \ {name})

new_event(kwattrs) == new_event_from(EmptyEvent, kwattrs, DOMAIN kwattrs)

ExpNamed ==
    new_event([n \in {"event_type", "target_type", "target_name"} |->
        CASE n = "event_type"  -> PyStr("vm_create")
          [] n = "target_type" -> PyStr("VmOrTemplate")
          [] n = "target_name" -> PyStr("vm1")])

ExpId(tid) ==
    new_event([n \in {"event_type", "target_id"} |->
        IF n = "event_type" THEN PyStr("vm_create") ELSE PyInt(tid)])

ExpIdMsg(tid, msg) ==
    new_event([n \in {"event_type", "target_id", "message"} |->
        CASE n = "event_type" -> PyStr("vm_create")
          [] n = "target_id"  -> PyInt(tid)
          [] n = "message"    -> PyStr(msg)])

ExpUnmapped ==
    new_event([n \in {"target_type", "target_name"} |->
        IF n = "target_type" THEN PyStr("Datastore") ELSE PyStr("vm1")])

ExpNoType == new_event([n \in {"target_name"} |-> PyStr("vm1")])

\* the exp_event dict listen_to builds; cb_done counts the invocations of the
\* callback that returned
ExpEvent(evt, callback, first_event) ==
    [event |-> evt, callback |-> callback, matched_events |-> <<>>,
     first_event |-> first_event, cb_done |-> 0]

\* callbacks the test passes: none, one that returns, one that raises
NoCallback == "None"

\* a call listen_to(*evts, **kwargs) with one event
ListenCall(evt, kwargs) == [evts |-> <<Instance("Event", evt)>>, kwargs |-> kwargs]

\* keyword arguments callback=..., first_event=...
Kwargs(callback, first_event) ==
    ("callback" :> callback) @@ ("first_event" :> PyBool(first_event))

\* listen_to calls of the test
ListenPool ==
    {ListenCall(ExpNamed, Kwargs(NoCallback, TRUE)),
     ListenCall(ExpIdMsg(1, "ok"), Kwargs("returns", FALSE)),
     ListenCall(ExpIdMsg(2, "ok"), Kwargs(NoCallback, FALSE))}

\* no keyword argument
NoKwargs == [n \in {} |-> None]

\* listen_to calls with two events, and with keyword arguments left out
ManyPool ==
    {[evts |-> <<Instance("Event", ExpIdMsg(1, "ok")), Instance("Event", ExpNamed)>>,
      kwargs |-> "callback" :> "returns"],
     ListenCall(ExpIdMsg(2, "ok"), Kwargs(NoCallback, TRUE)),
     ListenCall(ExpId(1), NoKwargs)}

\* calls of the listener itself, listener(**kwargs), as the register_event
\* fixture makes them
CallPool ==
    {[n \in {"event_type", "target_type", "target_name"} |->
        CASE n = "event_type"  -> PyStr("vm_create")
          [] n = "target_type" -> PyStr("VmOrTemplate")
          [] n = "target_name" -> PyStr("vm1")],
     [n \in {"event_type", "target_id", "first_event"} |->
        CASE n = "event_type"  -> PyStr("vm_create")
          [] n = "target_id"   -> PyInt(1)
          [] n = "first_event" -> PyBool(FALSE)],
     [n \in {"event_type", "target_id", "first_event"} |->
        CASE n = "event_type"  -> PyStr("vm_create")
          [] n = "target_id"   -> PyInt(2)
          [] n = "first_event" -> PyInt(1)]}

\* listen_to calls whose processing raises in the listener thread, beside one
\* that does not
FaultyPool ==
    {ListenCall(ExpIdMsg(1, "ok"), Kwargs("returns", FALSE)),
     ListenCall(ExpId(1), Kwargs("raises", FALSE)),
     ListenCall(ExpUnmapped, Kwargs(NoCallback, FALSE)),
     ListenCall(ExpNoType, Kwargs(NoCallback, FALSE))}

(***************************************************************************)
(* EventListener                                                           *)
(***************************************************************************)
\* EventListener.FILTER_ATTRS
FILTER_ATTRS == {"event_type", "target_type", "target_id", "source"}

\* the entities of event_streams: the payload with its id
Entity(i) ==
    [n \in EntityFields |-> IF n = "id" THEN PyInt(i) ELSE stream[i][n]]

Entities == {Entity(i) : i \in 1..Len(stream)}

\* no function of the module is called on its own
NoArgs == [fn |-> "none"]
NotCalled == [exc |-> "not called"]

\* EventListener.__init__, with an appliance that has no events and no objects
NewListener ==
    /\ stream = <<>>
    /\ objects = {}
    /\ events_to_listen = <<>>
    /\ last_processed_id = None
    /\ stop_event = FALSE
    /\ pc = "initial"
    /\ iterList = <<>>
    /\ detached = FALSE
    /\ idx = 1
    /\ cur = 1
    /\ portion = <<>>
    /\ thread_exc = "none"
    /\ listen_calls = 0

Init ==
    /\ NewListener
    /\ args = NoArgs
    /\ ret = NotCalled

\* Thread.is_alive(): EventListener.started
started == pc \notin {"initial", "done", "crashed"}

\* the listener thread is inside the for loop over the registry
InPass == pc \in {"for", "get_next_portion", "query", "match", "stop_check"}

\* the list the for loop iterates
IterList == IF detached THEN iterList ELSE events_to_listen

\* EventListener.got_events
got_events == events_to_listen

\* any(iterable) of Python
any(iterable) == \E k \in 1..Len(iterable) : Truthy(iterable[k])

\* all(iterable) of Python
all(iterable) == \A k \in 1..Len(iterable) : Truthy(iterable[k])

\* EventListener.check_expected_events
check_expected_events ==
    all([i \in 1..Len(got_events) |-> PyInt(Len(got_events[i].matched_events))])

(***************************************************************************)
(* The appliance: events arrive in event_streams, objects get created.     *)
(***************************************************************************)
AddEvent(payload) ==
    /\ Len(stream) < MaxEvents
    /\ stream' = Append(stream, payload)
    /\ UNCHANGED <<objects, events_to_listen, last_processed_id, stop_event>>
    /\ UNCHANGED loopVars
    /\ UNCHANGED testVars

CreateObject(o) ==
    /\ o \notin objects
    /\ objects' = objects \cup {o}
    /\ UNCHANGED <<stream, events_to_listen, last_processed_id, stop_event>>
    /\ UNCHANGED loopVars
    /\ UNCHANGED testVars

(***************************************************************************)
(* The driving thread.                                                     *)
(***************************************************************************)
\* EventListener.set_last_record(evt): the id of the event
set_last_record(evt) == evt["id"].value

\* set_last_record() that leaves the watermark as it is
set_last_record_keep == last_processed_id

\* EventListener.set_last_record(): the id of the latest event of the stream, the
\* old value when the stream is empty (IndexError)
set_last_record_latest ==
    IF Len(stream) = 0 THEN last_processed_id ELSE PyInt(Len(stream))

\* Thread.start(): a thread can be started once, a second call raises RuntimeError
thread_start_raises == pc # "initial"

\* what EventListener.start does to the listener
start_effects ==
    /\ last_processed_id' = set_last_record_latest
    /\ stop_event' = FALSE
    /\ pc' = IF thread_start_raises THEN pc ELSE "while"
    /\ UNCHANGED <<iterList, detached, idx, cur, portion, thread_exc>>
    /\ UNCHANGED <<events_to_listen>>
    /\ UNCHANGED envVars

\* EventListener.start
start ==
    /\ start_effects
    /\ UNCHANGED testVars

\* EventListener.stop
stop ==
    /\ stop_event' = TRUE
    /\ UNCHANGED <<events_to_listen, last_processed_id>>
    /\ UNCHANGED loopVars
    /\ UNCHANGED envVars
    /\ UNCHANGED testVars

\* kwargs.get(name)
kwargs_get(kwargs, name, default) ==
    IF name \in DOMAIN kwargs THEN kwargs[name] ELSE default

\* the events of evts that listen_to reaches: all of them, or those before the
\* first one that is not an Event, where it raises ValueError
listen_to_reaches(evts) ==
    LET bad == {k \in 1..Len(evts) : ~isinstance(evts[k], "Event")}
    IN  IF bad = {} THEN Len(evts)
        ELSE (CHOOSE k \in bad : \A j \in bad : k <= j) - 1

listen_to_raises(evts) == listen_to_reaches(evts) < Len(evts)

\* listen_to with first_event defaulting to True, as __call__ has it
listen_to_appends_first(evts, kwargs) ==
    LET callback == kwargs_get(kwargs, "callback", NoCallback)
        first_event == Truthy(kwargs_get(kwargs, "first_event", PyBool(TRUE)))
    IN  [k \in 1..listen_to_reaches(evts) |->
            ExpEvent(evts[k].obj, callback, first_event)]

\* the exp_event dicts listen_to appends
listen_to_appends(evts, kwargs) ==
    LET callback == kwargs_get(kwargs, "callback", NoCallback)
        first_event == Truthy(kwargs_get(kwargs, "first_event", None))
    IN  [k \in 1..listen_to_reaches(evts) |->
            ExpEvent(evts[k].obj, callback, first_event)]

\* EventListener.listen_to(*evts, **kwargs); the test registers MaxSubs events
\* at most
listen_to(evts, kwargs) ==
    /\ listen_calls + Len(evts) <= MaxSubs
    /\ listen_calls' = listen_calls + Len(evts)
    /\ events_to_listen' = events_to_listen \o listen_to_appends(evts, kwargs)
    /\ UNCHANGED <<last_processed_id, stop_event>>
    /\ UNCHANGED loopVars
    /\ UNCHANGED envVars
    /\ UNCHANGED callVars

\* __call__ with first_event defaulting to False
call_default_false(kwargs) ==
    LET first_event == kwargs_get(kwargs, "first_event", PyBool(FALSE))
        rest == [n \in DOMAIN kwargs \ {"first_event"} |-> kwargs[n]]
        evt == new_event(rest)
    IN  listen_to(<<Instance("Event", evt)>>,
                  ("callback" :> NoCallback) @@ ("first_event" :> first_event))

\* EventListener.__call__(**kwargs): first_event is popped from kwargs, True when
\* it is not there
__call__(kwargs) ==
    LET first_event == IF "first_event" \in DOMAIN kwargs
                       THEN kwargs["first_event"] ELSE PyBool(TRUE)
        rest == [n \in DOMAIN kwargs \ {"first_event"} |-> kwargs[n]]
        evt == new_event(rest)
    IN  listen_to(<<Instance("Event", evt)>>,
                  ("callback" :> NoCallback) @@ ("first_event" :> first_event))

\* EventListener.reset_events: _events_to_listen is bound to a new empty list; a
\* for loop that is iterating the old list keeps iterating it
reset_events ==
    /\ events_to_listen' = <<>>
    /\ IF InPass /\ ~detached
       THEN iterList' = events_to_listen /\ detached' = TRUE
       ELSE UNCHANGED <<iterList, detached>>
    /\ UNCHANGED <<last_processed_id, stop_event>>
    /\ UNCHANGED <<pc, idx, cur, portion, thread_exc>>
    /\ UNCHANGED envVars
    /\ UNCHANGED testVars

(***************************************************************************)
(* The listener thread: EventListener.process_events                       *)
(***************************************************************************)
\* the thread ends: the loop has exited ("done") or an exception has left run()
ThreadEnds(how, exc) ==
    /\ pc' = how
    /\ thread_exc' = exc
    /\ iterList' = <<>>
    /\ detached' = FALSE
    /\ idx' = 1
    /\ cur' = 1
    /\ portion' = <<>>

\* an assignment to the list the for loop iterates
SetIterList(new) ==
    IF detached
    THEN iterList' = new /\ UNCHANGED events_to_listen
    ELSE events_to_listen' = new /\ UNCHANGED iterList

\* self._stop_event.is_set()
is_set == stop_event

\* the while statement as while True
while_true ==
    /\ pc = "while"
    /\ pc' = "sleep"
    /\ UNCHANGED <<iterList, detached, idx, cur, portion, thread_exc>>
    /\ UNCHANGED <<events_to_listen, last_processed_id, stop_event>>
    /\ UNCHANGED envVars
    /\ UNCHANGED testVars

\* while not self._stop_event.is_set()
while_test ==
    /\ pc = "while"
    /\ IF is_set
       THEN ThreadEnds("done", "none")
       ELSE pc' = "sleep" /\ UNCHANGED <<iterList, detached, idx, cur, portion, thread_exc>>
    /\ UNCHANGED <<events_to_listen, last_processed_id, stop_event>>
    /\ UNCHANGED envVars
    /\ UNCHANGED testVars

\* sleep(1), then the for statement takes an iterator of self._events_to_listen
sleep ==
    /\ pc = "sleep"
    /\ pc' = "for"
    /\ idx' = 1
    /\ UNCHANGED <<iterList, detached, cur, portion, thread_exc>>
    /\ UNCHANGED <<events_to_listen, last_processed_id, stop_event>>
    /\ UNCHANGED envVars
    /\ UNCHANGED testVars

\* if exp_event['first_event'] and len(exp_event['matched_events']) > 0: continue
first_event_skip(exp_event) ==
    exp_event.first_event /\ Len(exp_event.matched_events) > 0

\* the for loop leaves its list: back to the while test
ForEnds ==
    /\ pc' = "while"
    /\ iterList' = <<>>
    /\ detached' = FALSE
    /\ idx' = 1
    /\ cur' = 1

\* for exp_event in self._events_to_listen, and the first_event test
for_next ==
    /\ pc = "for"
    /\ IF idx > Len(IterList)
       THEN ForEnds
       ELSE /\ cur' = idx
            /\ idx' = idx + 1
            /\ pc' = IF first_event_skip(IterList[idx]) THEN "for" ELSE "get_next_portion"
            /\ UNCHANGED <<iterList, detached>>
    /\ UNCHANGED <<portion, thread_exc>>
    /\ UNCHANGED <<events_to_listen, last_processed_id, stop_event>>
    /\ UNCHANGED envVars
    /\ UNCHANGED testVars

\* get_next_portion without its return on a missing target_id: the query is
\* built in every case
resolve_target_always_queries ==
    /\ pc = "get_next_portion"
    /\ \E r \in add_target_id(IterList[cur].event) :
          IF r.exc # "none"
          THEN ThreadEnds("crashed", r.exc) /\ UNCHANGED events_to_listen
          ELSE /\ SetIterList([IterList EXCEPT ![cur].event = r.evt])
               /\ pc' = "query"
               /\ UNCHANGED <<detached, idx, cur, portion, thread_exc>>
    /\ UNCHANGED <<last_processed_id, stop_event>>
    /\ UNCHANGED envVars
    /\ UNCHANGED testVars

\* get_next_portion up to its return on a missing target_id
resolve_target ==
    /\ pc = "get_next_portion"
    /\ \E r \in add_target_id(IterList[cur].event) :
          IF r.exc # "none"
          THEN ThreadEnds("crashed", r.exc) /\ UNCHANGED events_to_listen
          ELSE /\ SetIterList([IterList EXCEPT ![cur].event = r.evt])
               /\ pc' = IF "target_id" \in DOMAIN r.evt THEN "query" ELSE "for"
               /\ UNCHANGED <<detached, idx, cur, portion, thread_exc>>
    /\ UNCHANGED <<last_processed_id, stop_event>>
    /\ UNCHANGED envVars
    /\ UNCHANGED testVars

\* the filters get_next_portion adds to Q('id', '>', self._last_processed_id)
\* used_filters leaving out the attributes that carry a cmp_func
used_filters_uncompared(evt) ==
    {filter_attr \in FILTER_ATTRS \cap DOMAIN evt :
        Truthy(evt[filter_attr].value) /\ evt[filter_attr].cmp_func = NoCmp}

\* the attributes of evt that get_next_portion turns into a Q(filter_attr, '=', value)
used_filters(evt) ==
    {filter_attr \in FILTER_ATTRS \cap DOMAIN evt : Truthy(evt[filter_attr].value)}

\* self._tool.event_streams.filter(q): the entities the query selects
get_next_portion(evt) ==
    {e \in Entities :
        /\ IdGreater(e["id"], last_processed_id)
        /\ \A filter_attr \in used_filters(evt) : e[filter_attr] = evt[filter_attr].value}

\* the orders in which the event source may return a set of entities
Orderings(S) ==
    {seq \in [1..Cardinality(S) -> S] :
        \A i, j \in 1..Cardinality(S) : i # j => seq[i] # seq[j]}

\* the query returns; if not matched_events: continue
query_returns ==
    /\ pc = "query"
    /\ \E result \in Orderings(get_next_portion(IterList[cur].event)) :
          /\ portion' = result
          /\ pc' = IF result = <<>> THEN "for" ELSE "match"
    /\ UNCHANGED <<iterList, detached, idx, cur, thread_exc>>
    /\ UNCHANGED <<events_to_listen, last_processed_id, stop_event>>
    /\ UNCHANGED envVars
    /\ UNCHANGED testVars

\* the query raises (the REST call fails): nothing in process_events or run catches it
query_raises ==
    /\ pc = "query"
    /\ ThreadEnds("crashed", "QueryError")
    /\ UNCHANGED <<events_to_listen, last_processed_id, stop_event>>
    /\ UNCHANGED envVars
    /\ UNCHANGED testVars

\* the append without the call of the callback
record_match_uncalled(exp_event, got_event) ==
    [exp_event EXCEPT !.matched_events = Append(@, got_event)]

\* callback(...) and exp_event['matched_events'].append(got_event)
record_match(exp_event, got_event) ==
    [exp_event EXCEPT
        !.matched_events = Append(@, got_event),
        !.cb_done = IF exp_event.callback # NoCallback THEN @ + 1 ELSE @]

\* one round of: for event_entity in matched_events
match_event ==
    /\ pc = "match"
    /\ LET exp_event == IterList[cur]
           got_event == build_from_entity(Head(portion))
           hit == matches(exp_event.event, got_event)
       IN  IF hit /\ exp_event.callback = "raises"
           THEN /\ ThreadEnds("crashed", "CallbackError")
                /\ UNCHANGED <<events_to_listen, last_processed_id>>
           ELSE /\ IF hit
                   THEN SetIterList([IterList EXCEPT ![cur] = record_match(exp_event, got_event)])
                   ELSE UNCHANGED <<events_to_listen, iterList>>
                /\ last_processed_id' = set_last_record(got_event)
                /\ portion' = Tail(portion)
                /\ pc' = IF Tail(portion) = <<>> THEN "stop_check" ELSE "match"
                /\ UNCHANGED <<detached, idx, cur, thread_exc>>
    /\ UNCHANGED stop_event
    /\ UNCHANGED envVars
    /\ UNCHANGED testVars

\* if self._stop_event.is_set(): break
stop_check ==
    /\ pc = "stop_check"
    /\ IF is_set
       THEN ForEnds
       ELSE pc' = "for" /\ UNCHANGED <<iterList, detached, idx, cur>>
    /\ UNCHANGED <<portion, thread_exc>>
    /\ UNCHANGED <<events_to_listen, last_processed_id, stop_event>>
    /\ UNCHANGED envVars
    /\ UNCHANGED testVars

\* a step of the listener thread
process_events ==
    \/ while_test
    \/ sleep
    \/ for_next
    \/ resolve_target
    \/ query_returns
    \/ query_raises
    \/ match_event
    \/ stop_check

\* a step of the appliance
Environment ==
    \/ \E payload \in EventPool : AddEvent(payload)
    \/ \E o \in ObjectPool : CreateObject(o)

\* a call of the driving thread
Driver(pool) ==
    \/ start
    \/ stop
    \/ \E c \in pool : listen_to(c.evts, c.kwargs)
    \/ reset_events

Next == Environment \/ Driver(ListenPool) \/ process_events

Spec == Init /\ [][Next]_vars

\* the test calls start() one time, on the listener it has just built
start_once == pc = "initial" /\ start

DriverOnce(pool) ==
    \/ start_once
    \/ stop
    \/ \E c \in pool : listen_to(c.evts, c.kwargs)
    \/ reset_events

NextOnce == Environment \/ DriverOnce(ListenPool) \/ process_events

SpecOnce == Init /\ [][NextOnce]_vars

\* scenario D: the test calls stop() only while the loop is in sleep(1)
stop_mid_sleep == pc = "sleep" /\ stop

NextD ==
    \/ Environment
    \/ start_once
    \/ stop_mid_sleep
    \/ \E c \in ListenPool : listen_to(c.evts, c.kwargs)
    \/ reset_events
    \/ process_events

SpecD == Init /\ [][NextD]_vars

\* the test calls stop() only while the loop is processing the first
\* subscription of a pass: resolving its target, querying or matching
stop_in_first ==
    /\ pc \in {"get_next_portion", "query", "match"}
    /\ cur = 1
    /\ stop

NextStopInPass ==
    \/ Environment
    \/ start_once
    \/ stop_in_first
    \/ \E c \in ListenPool : listen_to(c.evts, c.kwargs)
    \/ reset_events
    \/ process_events

SpecStopInPass == Init /\ [][NextStopInPass]_vars

\* the test calls start() one time and notes how many events event_streams
\* holds at that moment
start_noting ==
    /\ pc = "initial"
    /\ start_effects
    /\ args' = [fn |-> "start", present |-> Len(stream)]
    /\ UNCHANGED <<listen_calls, ret>>

NextNoting ==
    \/ Environment
    \/ start_noting
    \/ stop
    \/ \E c \in ListenPool : listen_to(c.evts, c.kwargs)
    \/ reset_events
    \/ process_events

SpecNoting == Init /\ [][NextNoting]_vars

\* the listener thread is scheduled again and again
FairOnce == SpecOnce /\ WF_vars(process_events)

\* scenario A: the test registers one expectation that names its target while no
\* object of that name exists, then starts the listener; afterwards the object is
\* created and events arrive, one of them at most for the named object; every
\* query returns
listen_named(first_event) ==
    /\ events_to_listen = <<>>
    /\ pc = "initial"
    /\ objects = {}
    /\ listen_to(<<Instance("Event", ExpNamed)>>, Kwargs(NoCallback, first_event))

start_registered == Len(events_to_listen) = 1 /\ start_once

CreateNamed(o) == Len(events_to_listen) = 1 /\ CreateObject(o)

AddEventA(payload) ==
    /\ \A e \in Entities : e["target_id"] = PyInt(1) => payload.target_id # PyInt(1)
    /\ AddEvent(payload)

\* a step of the listener thread in which no query fails
process_events_ok ==
    \/ while_test
    \/ sleep
    \/ for_next
    \/ resolve_target
    \/ query_returns
    \/ match_event
    \/ stop_check

NextA ==
    \/ \E first_event \in BOOLEAN : listen_named(first_event)
    \/ start_registered
    \/ \E o \in ObjectPool : CreateNamed(o)
    \/ \E payload \in EventPool : AddEventA(payload)
    \/ process_events_ok

SpecA == Init /\ [][NextA]_vars /\ WF_vars(process_events_ok)

\* the test registers several events in one call and leaves keyword arguments out
NextMany == Environment \/ DriverOnce(ManyPool) \/ process_events

SpecMany == Init /\ [][NextMany]_vars

\* the test registers its expectations by calling the listener, as the
\* register_event fixture does, and does not clear the registry
NextCall ==
    \/ Environment
    \/ start_once
    \/ stop
    \/ \E kwargs \in CallPool : __call__(kwargs)
    \/ process_events

SpecCall == Init /\ [][NextCall]_vars

\* the test registers expectations whose processing raises
NextFaulty == Environment \/ Driver(FaultyPool) \/ process_events

SpecFaulty == Init /\ [][NextFaulty]_vars

(***************************************************************************)
(* Calls of single functions of the module, on arguments drawn from pools. *)
(***************************************************************************)
\* attribute values: None, the falsy values 0, "" and False, and ordinary ones
ValuePool ==
    {None, PyInt(0), PyStr(""), PyBool(FALSE),
     PyInt(1), PyInt(2), PyStr("ok"), PyStr("failed"), PyBool(TRUE)}

\* self.match(attr): self an EventAttr, attr an EventAttr or an object of another
\* class that has the same fields
MatchArgs ==
    {[fn |-> "match",
      self |-> EventAttr("message", v1, cmp),
      attr |-> Instance(cls, EventAttr(n2, v2, NoCmp))] :
        v1 \in ValuePool, v2 \in ValuePool, cmp \in {NoCmp, "same_type"},
        n2 \in {"message", "source"}, cls \in {"EventAttr", "object"}}

InitMatch ==
    /\ NewListener
    /\ args \in MatchArgs
    /\ ret = NotCalled

call_match ==
    /\ args.fn = "match"
    /\ ret = NotCalled
    /\ ret' = match_call(args.self, args.attr)
    /\ UNCHANGED <<args, listen_calls>>
    /\ UNCHANGED <<events_to_listen, last_processed_id, stop_event>>
    /\ UNCHANGED loopVars
    /\ UNCHANGED envVars

SpecMatch == InitMatch /\ [][call_match]_vars

\* the events of the calls of matches: built by new_event from any values for
\* any of two default attributes
DescNames == {"message", "target_id"}

DescValues == {None, PyInt(0), PyStr(""), PyBool(FALSE), PyInt(1), PyStr("ok")}

Descriptors ==
    {new_event(kwattrs) : kwattrs \in UNION {[D -> DescValues] : D \in SUBSET DescNames}}

MatchesArgs ==
    {[fn |-> "matches", self |-> d1, evt |-> d2] : d1 \in Descriptors, d2 \in Descriptors}

InitMatches ==
    /\ NewListener
    /\ args \in MatchesArgs
    /\ ret = NotCalled

call_matches ==
    /\ args.fn = "matches"
    /\ ret = NotCalled
    /\ ret' = [exc |-> "none", ret |-> matches(args.self, args.evt)]
    /\ UNCHANGED <<args, listen_calls>>
    /\ UNCHANGED <<events_to_listen, last_processed_id, stop_event>>
    /\ UNCHANGED loopVars
    /\ UNCHANGED envVars

SpecMatches == InitMatches /\ [][call_matches]_vars

\* the objects of the appliance for the calls of process_id: two VMs of one
\* name, a host of that name, another VM
ProcessIdObjects ==
    {[coll |-> "vms", name |-> "vm1", id |-> 1],
     [coll |-> "vms", name |-> "vm1", id |-> 2],
     [coll |-> "hosts", name |-> "vm1", id |-> 3],
     [coll |-> "vms", name |-> "vm2", id |-> 4]}

ProcessIdArgs ==
    {[fn |-> "process_id", target_type |-> t, target_name |-> n] :
        t \in {PyStr("VmOrTemplate"), PyStr("Host"), PyStr("Datastore"), None},
        n \in {PyInt(7), PyInt(0), PyBool(TRUE), PyStr("vm1"), PyStr("nope"), None}}

InitProcessId ==
    /\ NewListener
    /\ args \in ProcessIdArgs
    /\ ret = NotCalled

\* the appliance creates an object before the call
CreateBefore(o) == ret = NotCalled /\ CreateObject(o)

call_process_id ==
    /\ args.fn = "process_id"
    /\ ret = NotCalled
    /\ ret' \in process_id(args.target_type, args.target_name)
    /\ UNCHANGED <<args, listen_calls>>
    /\ UNCHANGED <<events_to_listen, last_processed_id, stop_event>>
    /\ UNCHANGED loopVars
    /\ UNCHANGED envVars

NextProcessId ==
    \/ \E o \in ProcessIdObjects : CreateBefore(o)
    \/ call_process_id

SpecProcessId == InitProcessId /\ [][NextProcessId]_vars

\* the calls of get_next_portion: expectations built by new_event from any
\* values for target_id, source and message, on a stream of up to MaxEvents
\* events and a watermark set by start()
QueryNames == {"target_id", "source", "message"}

QueryValues == {None, PyInt(0), PyStr(""), PyInt(1), PyStr("VC")}

QueryArgs ==
    {[fn |-> "get_next_portion", evt |-> new_event(kwattrs)] :
        kwattrs \in UNION {[D -> QueryValues] : D \in SUBSET QueryNames}}

\* an event whose target_id is 0 and whose source is empty
PayloadZero ==
    [event_type |-> PyStr("vm_create"), target_type |-> PyStr("VmOrTemplate"),
     target_id |-> PyInt(0), source |-> PyStr(""), message |-> PyStr("ok")]

QueryEventPool == {Payload(1, "ok"), PayloadZero}

InitQuery ==
    /\ NewListener
    /\ args \in QueryArgs
    /\ ret = NotCalled

\* before the call: events arrive and start() sets the watermark
AddBefore(payload) == ret = NotCalled /\ AddEvent(payload)

start_before == ret = NotCalled /\ start_once

\* EventListener.get_next_portion(evt), evt without target_name: None when evt
\* has no target_id, the result of the query otherwise
call_get_next_portion ==
    /\ args.fn = "get_next_portion"
    /\ ret = NotCalled
    /\ ret' = IF "target_id" \notin DOMAIN args.evt
              THEN [exc |-> "none", queried |-> FALSE, ret |-> {}]
              ELSE [exc |-> "none", queried |-> TRUE, ret |-> get_next_portion(args.evt)]
    /\ UNCHANGED <<args, listen_calls>>
    /\ UNCHANGED <<events_to_listen, last_processed_id, stop_event>>
    /\ UNCHANGED loopVars
    /\ UNCHANGED envVars

NextQuery ==
    \/ \E payload \in QueryEventPool : AddBefore(payload)
    \/ start_before
    \/ call_get_next_portion

SpecQuery == InitQuery /\ [][NextQuery]_vars

\* EventListener.new_event(attr, **kwattrs): the keyword attributes first, then
\* the positional one, which may carry a cmp_func
new_event_attrs(attr, kwattrs) ==
    add_attrs(new_event(kwattrs), EventAttr(attr.name, attr.value, attr.cmp_func))

\* expectations with a cmp_func on a filterable attribute: on event_type, on
\* target_id, and on an empty source
CmpPool ==
    {ListenCall(new_event_attrs(
                    [name |-> "event_type", value |-> PyStr("vm_create"), cmp_func |-> "same_type"],
                    [n \in {"target_id"} |-> PyInt(1)]),
                Kwargs(NoCallback, FALSE)),
     ListenCall(new_event_attrs(
                    [name |-> "target_id", value |-> PyInt(1), cmp_func |-> "same_type"],
                    [n \in {"event_type"} |-> PyStr("vm_create")]),
                Kwargs(NoCallback, FALSE)),
     ListenCall(new_event_attrs(
                    [name |-> "source", value |-> PyStr(""), cmp_func |-> "same_type"],
                    [n \in {"target_id"} |-> PyInt(2)]),
                Kwargs(NoCallback, FALSE))}

\* an event of another event_type for target 1
PayloadDelete ==
    [event_type |-> PyStr("vm_delete"), target_type |-> PyStr("VmOrTemplate"),
     target_id |-> PyInt(1), source |-> PyStr("VC"), message |-> PyStr("ok")]

CmpEventPool == {Payload(1, "ok"), Payload(2, "ok"), PayloadDelete}

NextCmp ==
    \/ \E payload \in CmpEventPool : AddEvent(payload)
    \/ start_noting
    \/ stop
    \/ \E c \in CmpPool : listen_to(c.evts, c.kwargs)
    \/ process_events

SpecCmp == Init /\ [][NextCmp]_vars

\* an expectation with an event_type alone
ExpTypeOnly == new_event([n \in {"event_type"} |-> PyStr("vm_create")])

\* the test registers expectations without a target next to one with a target_id
UntargetedPool ==
    {ListenCall(ExpTypeOnly, Kwargs(NoCallback, FALSE)),
     ListenCall(ExpTypeOnly, Kwargs("returns", TRUE)),
     ListenCall(ExpId(1), Kwargs(NoCallback, FALSE))}

NextUntargeted ==
    \/ \E payload \in EventPool : AddEvent(payload)
    \/ start_once
    \/ stop
    \/ \E c \in UntargetedPool : listen_to(c.evts, c.kwargs)
    \/ reset_events
    \/ process_events

SpecUntargeted == Init /\ [][NextUntargeted]_vars

\* the calls of add_target_id: expectations built by new_event from any of
\* target_name, target_id and target_type; the call is made again on the same
\* expectation, as every pass of process_events does, while objects get created
ResolveValues(name) ==
    CASE name = "target_name" -> {PyStr("vm1"), PyStr("nope"), PyInt(7)}
      [] name = "target_id"   -> {PyInt(9), PyInt(0), None}
      [] name = "target_type" -> {PyStr("VmOrTemplate"), PyStr("Datastore")}

ResolveArgs ==
    {[fn |-> "add_target_id", evt |-> new_event(kwattrs), calls |-> 0] :
        kwattrs \in UNION {{f \in [D -> UNION {ResolveValues(n) : n \in D}] :
                                \A n \in D : f[n] \in ResolveValues(n)} :
                            D \in SUBSET {"target_name", "target_id", "target_type"}}}

InitResolve ==
    /\ NewListener
    /\ args \in ResolveArgs
    /\ ret = NotCalled

\* the appliance creates an object, before a call or between two calls
CreateBetween(o) == args.fn = "add_target_id" /\ CreateObject(o)

\* evt.add_target_id(): evt is changed in place
call_add_target_id ==
    /\ args.fn = "add_target_id"
    /\ args.calls < MaxCalls
    /\ \E r \in add_target_id(args.evt) :
          /\ ret' = [exc |-> r.exc]
          /\ args' = [args EXCEPT !.evt = r.evt, !.calls = @ + 1]
    /\ UNCHANGED listen_calls
    /\ UNCHANGED <<events_to_listen, last_processed_id, stop_event>>
    /\ UNCHANGED loopVars
    /\ UNCHANGED envVars

NextResolve ==
    \/ \E o \in ProcessIdObjects : CreateBetween(o)
    \/ call_add_target_id

SpecResolve == InitResolve /\ [][NextResolve]_vars

\* calls of listen_to that pass an object which is not an Event: an EventAttr
\* after an event, a dict of attributes before an event, and a call with events
\* alone
MixedPool ==
    {[evts |-> <<Instance("Event", ExpId(1)),
                 Instance("EventAttr", EventAttr("target_id", PyInt(1), NoCmp))>>,
      kwargs |-> NoKwargs],
     [evts |-> <<Instance("dict", [n \in {"target_id"} |-> PyInt(2)]),
                 Instance("Event", ExpId(2))>>,
      kwargs |-> NoKwargs],
     ListenCall(ExpId(2), Kwargs(NoCallback, TRUE))}

NextMixed ==
    \/ \E payload \in EventPool : AddEvent(payload)
    \/ start_once
    \/ stop
    \/ \E c \in MixedPool : listen_to(c.evts, c.kwargs)
    \/ process_events

SpecMixed == Init /\ [][NextMixed]_vars

\* the life of one Event: created empty, then add_attrs, build_from_entity and
\* add_target_id are called on it in any order, MaxOps times at most, while
\* the appliance creates objects
AttrPool ==
    {EventAttr("target_name", PyStr("vm1"), NoCmp),
     EventAttr("target_type", PyStr("VmOrTemplate"), NoCmp),
     EventAttr("target_type", PyStr("Datastore"), NoCmp),
     EventAttr("target_id", PyInt(9), NoCmp),
     EventAttr("message", PyStr("ok"), "same_type"),
     EventAttr("message", PyStr("failed"), NoCmp),
     EventAttr("bogus", PyStr("x"), NoCmp),
     EventAttr("first_event", PyBool(TRUE), NoCmp)}

\* records of event_streams; the second one has no message
RecordPool ==
    {[n \in EntityFields |-> IF n = "id" THEN PyInt(1) ELSE Payload(1, "ok")[n]],
     [n \in EntityFields \ {"message"} |->
         IF n = "id" THEN PyInt(2) ELSE Payload(2, "ok")[n]]}

InitEvent ==
    /\ NewListener
    /\ args = [fn |-> "Event", evt |-> EmptyEvent, calls |-> 0]
    /\ ret = NotCalled

EventCall(evt, outcome) ==
    /\ args.fn = "Event"
    /\ args.calls < MaxOps
    /\ args' = [args EXCEPT !.evt = evt, !.calls = @ + 1]
    /\ ret' = outcome
    /\ UNCHANGED listen_calls
    /\ UNCHANGED <<events_to_listen, last_processed_id, stop_event>>
    /\ UNCHANGED loopVars
    /\ UNCHANGED envVars

\* evt.add_attrs(attr)
call_add_attrs(attr) ==
    EventCall(add_attrs(args.evt, attr),
              [exc |-> "none", op |-> "add_attrs", name |-> attr.name])

\* evt.build_from_entity(event_entity)
call_build_from_entity(event_entity) ==
    EventCall(build_from_entity_self(args.evt, event_entity),
              [exc |-> "none", op |-> "build_from_entity"])

\* evt.add_target_id()
call_add_target_id_on ==
    \E r \in add_target_id(args.evt) :
        EventCall(r.evt, [exc |-> r.exc, op |-> "add_target_id"])

CreateDuring(o) == args.fn = "Event" /\ CreateObject(o)

NextEvent ==
    \/ \E attr \in AttrPool : call_add_attrs(attr)
    \/ \E event_entity \in RecordPool : call_build_from_entity(event_entity)
    \/ call_add_target_id_on
    \/ \E o \in ObjectPool : CreateDuring(o)

SpecEvent == InitEvent /\ [][NextEvent]_vars

(***************************************************************************)
(* Claims                                                                  *)
(***************************************************************************)
\* every exp_event dict the program holds: the registry and, when the for loop
\* iterates a list that reset_events has replaced, that list
AllExpEvents ==
    {events_to_listen[i] : i \in 1..Len(events_to_listen)}
        \cup {iterList[i] : i \in 1..Len(iterList)}

\* the ids of the events an exp_event has recorded
MatchedIds(exp_event) ==
    {exp_event.matched_events[k]["id"].value : k \in 1..Len(exp_event.matched_events)}

\* a query for subscription i, issued now, would return entity e, and e is
\* compatible with the subscription's resolved expectation
Wants(i, e) ==
    /\ started
    /\ i \in 1..Len(events_to_listen)
    /\ "target_id" \in DOMAIN events_to_listen[i].event
    /\ ~first_event_skip(events_to_listen[i])
    /\ e \in get_next_portion(events_to_listen[i].event)
    /\ matches(events_to_listen[i].event, build_from_entity(e))

\* entity e has been fetched for subscription i: it is recorded, or it is in the
\* portion the loop is processing for i, or i is a first_event subscription that
\* has its event
Taken(i, e) ==
    /\ i \in 1..Len(events_to_listen)
    /\ \/ e["id"] \in MatchedIds(events_to_listen[i])
       \/ first_event_skip(events_to_listen[i])
       \/ /\ pc = "match" /\ ~detached /\ cur = i
          /\ \E k \in 1..Len(portion) : portion[k] = e

\* C1: no lost events.  While the listener runs and the registry is not changed,
\* an event that a subscription is still to get (above the watermark, passing
\* its filters, compatible with its expectation) stops being so only by being
\* fetched for that subscription; a step of start(), which sets the watermark
\* anew, is excepted.  In particular processing one subscription never makes
\* another one skip an event.
C1_NoLostEvents ==
    [][\/ start
       \/ ~started'
       \/ Len(events_to_listen') # Len(events_to_listen)
       \/ \A i \in 1..Len(events_to_listen) : \A e \in Entities :
             (Wants(i, e) /\ ~Wants(i, e)') => Taken(i, e)']_vars

\* C2: watermark monotonicity.  Once _last_processed_id is set, no step gives it
\* a lower value (or unsets it).
C2_WatermarkMonotone ==
    [][last_processed_id # None =>
         /\ last_processed_id' # None
         /\ last_processed_id'[2] >= last_processed_id[2]]_vars

\* C3: a subscription registered with first_event = True never holds more than
\* one matched event.
C3_FirstEventAtMostOne ==
    \A exp_event \in AllExpEvents :
        exp_event.first_event => Len(exp_event.matched_events) <= 1

\* C4: scenario D.  stop() is called only while the polling loop is in its sleep;
\* from then on the listener thread sends no query, appends no event to any
\* matched_events, runs no callback and leaves the watermark alone.
C4_NoQueryAfterStopInSleep ==
    [][stop_event =>
         /\ ~(query_returns \/ query_raises)
         /\ ~match_event
         /\ last_processed_id' = last_processed_id]_vars

\* C5: termination on stop.  start() is called one time; once stop() has been
\* called on the running listener, the listener thread ends and started becomes
\* false, whatever subscriptions and events there are.
C5_TerminatesOnStop ==
    (stop_event /\ started) ~> ~started

\* the loop has exited on the stop signal after it has recorded an event, with
\* two subscriptions registered and an event in the stream it has not fetched
C5_Witness ==
    /\ pc = "done"
    /\ stop_event
    /\ Len(events_to_listen) = 2
    /\ Len(events_to_listen[1].matched_events) > 0
    /\ last_processed_id # None
    /\ Len(stream) > last_processed_id[2]

\* the event of scenario A: vm_create for the object the name vm1 resolves to
ScenarioAEvent(e) ==
    /\ e["event_type"] = PyStr("vm_create")
    /\ e["target_type"] = PyStr("VmOrTemplate")
    /\ \E o \in objects : o.name = "vm1" /\ e["target_id"] = PyInt(o.id)

\* C6: scenario A.  Once the named object exists and its vm_create event is in
\* the stream above the watermark of the running listener,
\* check_expected_events() becomes true with exactly one matched event, whose
\* target_id is the id of the object; and at no time does the subscription hold
\* another event or a second one.
C6_ScenarioA ==
    /\ (started /\ \E e \in Entities :
            ScenarioAEvent(e) /\ IdGreater(e["id"], last_processed_id))
         ~> (/\ Len(events_to_listen) = 1
             /\ check_expected_events
             /\ Len(events_to_listen[1].matched_events) = 1)
    /\ [](\A i \in 1..Len(events_to_listen) :
            /\ Len(events_to_listen[i].matched_events) <= 1
            /\ \A k \in 1..Len(events_to_listen[i].matched_events) :
                  \E o \in objects :
                     /\ o.name = "vm1"
                     /\ events_to_listen[i].matched_events[k]["target_id"].value
                          = PyInt(o.id))

\* scenario A has run to its end: the expectation registered by name holds the
\* id the name resolved to and one matched event, and the listener still runs
C6_Witness ==
    /\ started
    /\ Len(events_to_listen) = 1
    /\ "target_name" \in DOMAIN events_to_listen[1].event
    /\ "target_id" \in DOMAIN events_to_listen[1].event
    /\ check_expected_events
    /\ Len(events_to_listen[1].matched_events) = 1
    /\ events_to_listen[1].matched_events[1]["target_id"].value = PyInt(1)

\* C7: match soundness.  Every recorded event agrees with the expectation of its
\* subscription on every attribute the two have in common; so an event for one
\* target id is never recorded by a subscription for another target id.
C7_MatchSound ==
    \A exp_event \in AllExpEvents :
        \A k \in 1..Len(exp_event.matched_events) :
            \A n \in DOMAIN exp_event.event \cap DOMAIN exp_event.matched_events[k] :
                exp_event.matched_events[k][n].value = exp_event.event[n].value

\* two subscriptions for the same event_type and different target ids are
\* registered, the pass over them is over, the one for target id 1 has recorded
\* the event for target id 1 and the other has recorded nothing
C7_Witness ==
    /\ Len(events_to_listen) = 2
    /\ \A i \in 1..2 : "target_id" \in DOMAIN events_to_listen[i].event
    /\ events_to_listen[1].event["target_id"].value = PyInt(1)
    /\ events_to_listen[2].event["target_id"].value = PyInt(2)
    /\ events_to_listen[1].event["event_type"] = events_to_listen[2].event["event_type"]
    /\ Len(events_to_listen[1].matched_events) = 1
    /\ events_to_listen[1].matched_events[1]["target_id"].value = PyInt(1)
    /\ events_to_listen[2].matched_events = <<>>
    /\ pc = "sleep"
    /\ last_processed_id = PyInt(Len(stream))

\* C8: registry exclusion.  While the listener thread is inside a pass over the
\* registry, no step adds a subscription to the registry or clears it.
C8_RegistryExclusion ==
    [][InPass => Len(events_to_listen') = Len(events_to_listen)]_vars

\* C9: query-failure containment.  A query that raises inside the polling loop
\* leaves the listener thread running.
C9_QueryFailureContained ==
    [][query_raises => started']_vars

\* C10: per-subscription error isolation.  A step that processes one
\* subscription (resolving its target, matching and calling its callback)
\* leaves the listener thread running, so the other subscriptions of the pass
\* are processed.
C10_SubscriptionErrorIsolated ==
    [][(resolve_target \/ match_event) => started']_vars

\* the expectation names its target, has a target_type of TARGET_TYPES and no
\* target_id yet
Unresolved(evt) ==
    /\ "target_name" \in DOMAIN evt
    /\ "target_id" \notin DOMAIN evt
    /\ "target_type" \in DOMAIN evt
    /\ evt["target_type"].value[1] = "str"
    /\ evt["target_type"].value[2] \in DOMAIN TARGET_TYPES

\* the ids of the objects the name of an unresolved expectation stands for
NamedIds(evt) ==
    CollectionFilter(TARGET_TYPES[evt["target_type"].value[2]], evt["target_name"].value)

\* C11: transient unresolved reference.  Every pass that comes to a subscription
\* whose target_name is not resolved yet attempts the resolution.  While no
\* object carries the name the attempt leaves the expectation without target_id,
\* sends no query, raises nothing, changes neither registry nor watermark and
\* goes on with the next subscription of the pass; when an object carries the
\* name the attempt sets target_id to its id and goes on to the query.
C11_TransientUnresolved ==
    [][/\ (for_next /\ idx <= Len(IterList) /\ Unresolved(IterList[idx].event))
            => (pc' = "get_next_portion" /\ cur' = idx)
       /\ (resolve_target /\ Unresolved(IterList[cur].event))
            => IF NamedIds(IterList[cur].event) = {}
               THEN /\ pc' = "for" /\ idx' = idx
                    /\ thread_exc' = "none"
                    /\ events_to_listen' = events_to_listen
                    /\ iterList' = iterList
                    /\ last_processed_id' = last_processed_id
               ELSE /\ pc' = "query"
                    /\ thread_exc' = "none"
                    /\ "target_id" \in DOMAIN IterList'[cur].event
                    /\ \E i \in NamedIds(IterList[cur].event) :
                          IterList'[cur].event["target_id"].value = PyInt(i)]_vars

\* no object is named vm1; a pass has left the first subscription, registered by
\* that name, unresolved and has recorded an event for the second one
C11_Witness ==
    /\ pc = "stop_check" /\ cur = 2 /\ ~detached
    /\ objects = {}
    /\ Len(events_to_listen) = 2
    /\ Unresolved(events_to_listen[1].event)
    /\ events_to_listen[1].matched_events = <<>>
    /\ Len(events_to_listen[2].matched_events) = 1

\* C12: check_expected_events() is true exactly when every subscription of the
\* registry holds one matched event at least; after reset_events() the registry
\* is empty and check_expected_events() is true.
C12_CheckExpectedEvents ==
    /\ [](check_expected_events
            <=> \A i \in 1..Len(events_to_listen) :
                    Len(events_to_listen[i].matched_events) >= 1)
    /\ [][reset_events => (events_to_listen' = <<>> /\ check_expected_events')]_vars

\* reset_events() was called during a pass over two subscriptions, one of them
\* without a match: the registry is empty and check_expected_events() is true
C12_Witness ==
    /\ events_to_listen = <<>>
    /\ check_expected_events
    /\ detached
    /\ Len(iterList) = 2
    /\ \E i \in 1..2 : iterList[i].matched_events = <<>>

\* the two values are the same value of the same type
SameValue(a, b) == a[1] = b[1] /\ a = b

\* C13: match of two attributes of the same name, without cmp_func, returns True
\* when the two values are the same and False when they are not equal, for None,
\* 0, "", False and ordinary values alike.
C13_MatchIsEquality ==
    (/\ args.fn = "match" /\ ret.exc # "not called"
     /\ isinstance(args.attr, "EventAttr")
     /\ args.self.name = args.attr.obj.name
     /\ args.self.cmp_func = NoCmp)
        => /\ ret.exc = "none"
           /\ (SameValue(args.self.value, args.attr.obj.value) => ret.ret)
           /\ (~PyEq(args.self.value, args.attr.obj.value) => ~ret.ret)

\* C14: match with an argument that is not an EventAttr, or with an EventAttr of
\* another name, raises ValueError whatever the values and the cmp_func, and
\* leaves both objects as they were.
C14_MatchRaisesOnMismatch ==
    (/\ args.fn = "match" /\ ret.exc # "not called"
     /\ \/ ~isinstance(args.attr, "EventAttr")
        \/ args.self.name # args.attr.obj.name)
        => /\ ret.exc = "ValueError"
           /\ ret.self = args.self
           /\ ret.attr = args.attr

\* match has raised for an object that is no EventAttr although it carries the
\* same name and the same value as self
C14_Witness ==
    /\ args.fn = "match"
    /\ ret.exc = "ValueError"
    /\ ~isinstance(args.attr, "EventAttr")
    /\ args.attr.obj.name = args.self.name
    /\ SameValue(args.attr.obj.value, args.self.value)
    /\ Truthy(args.self.value)

\* C15: matches is reflexive.  An event built from default attributes with any
\* values, None, 0 and "" included, and no cmp_func matches a copy of itself.
C15_MatchesReflexive ==
    (/\ args.fn = "matches" /\ ret.exc # "not called"
     /\ DOMAIN args.self = DOMAIN args.evt
     /\ \A n \in DOMAIN args.self : SameValue(args.self[n].value, args.evt[n].value))
        => ret.ret

\* C16: partial matching.  a.matches(b) is the conjunction of a[n].match(b[n])
\* over the names n that both events carry: it is True when they share no name,
\* and it is what matches returns for the two events cut down to the names they
\* share, so an attribute that only one of them carries has no influence.
C16_PartialMatching ==
    (args.fn = "matches" /\ ret.exc # "not called")
        => LET a == args.self
               b == args.evt
               shared == DOMAIN a \cap DOMAIN b
           IN  /\ ret.ret <=> \A n \in shared : match(a[n], b[n])
               /\ shared = {} => ret.ret
               /\ ret.ret <=> matches([n \in shared |-> a[n]], [n \in shared |-> b[n]])

\* matches has returned True for an expectation with message and target_id and
\* an event that carries the same message and no target_id
C16_Witness ==
    /\ args.fn = "matches" /\ ret.exc = "none"
    /\ DOMAIN args.self = {"message", "target_id"}
    /\ DOMAIN args.evt = {"message"}
    /\ args.self["target_id"].value = PyInt(1)
    /\ ret.ret

\* C17: listen_to(d1, ..., dn, callback, first_event) with events d1..dn appends
\* n subscriptions at the end of the registry, in the order of the arguments,
\* each with its event, the callback given (none when left out), the first_event
\* flag given (False when left out) and no matched event; the subscriptions
\* already registered and the watermark stay as they are.
C17_ListenToAppends ==
    [][\A c \in ManyPool :
         listen_to(c.evts, c.kwargs) =>
            LET old == Len(events_to_listen)
            IN  /\ Len(events_to_listen') = old + Len(c.evts)
                /\ \A k \in 1..old : events_to_listen'[k] = events_to_listen[k]
                /\ \A k \in 1..Len(c.evts) :
                      /\ events_to_listen'[old + k].event = c.evts[k].obj
                      /\ events_to_listen'[old + k].callback =
                            (IF "callback" \in DOMAIN c.kwargs
                             THEN c.kwargs["callback"] ELSE NoCallback)
                      /\ events_to_listen'[old + k].first_event =
                            (/\ "first_event" \in DOMAIN c.kwargs
                             /\ c.kwargs["first_event"] = PyBool(TRUE))
                      /\ events_to_listen'[old + k].matched_events = <<>>
                /\ last_processed_id' = last_processed_id]_vars

\* one call has registered two events with a callback and without first_event,
\* in the order given, and the running listener has recorded an event for the
\* first of them
C17_Witness ==
    /\ started
    /\ Len(events_to_listen) = 2
    /\ \A k \in 1..2 :
          events_to_listen[k].callback = "returns" /\ ~events_to_listen[k].first_event
    /\ events_to_listen[1].event = ExpIdMsg(1, "ok")
    /\ "target_name" \in DOMAIN events_to_listen[2].event
    /\ Len(events_to_listen[1].matched_events) = 1

\* the attribute keyword arguments of a call of the listener
AttrKwargs(kwargs) == [n \in DOMAIN kwargs \ {"first_event"} |-> kwargs[n]]

\* C18: callable shorthand.  A call listener(**kwargs) is a call
\* listen_to(new_event(attribute kwargs), callback=None, first_event=f), with f
\* True when first_event is not among kwargs and the value passed otherwise;
\* the event registered has no attribute first_event.
C18_CallIsListenTo ==
    [][\A kwargs \in CallPool :
         __call__(kwargs) =>
            /\ \/ /\ "first_event" \notin DOMAIN kwargs
                  /\ listen_to(<<Instance("Event", new_event(AttrKwargs(kwargs)))>>,
                               Kwargs(NoCallback, TRUE))
               \/ /\ "first_event" \in DOMAIN kwargs
                  /\ listen_to(<<Instance("Event", new_event(AttrKwargs(kwargs)))>>,
                               ("callback" :> NoCallback)
                                   @@ ("first_event" :> kwargs["first_event"]))
            /\ "first_event" \notin DOMAIN events_to_listen'[Len(events_to_listen')].event]_vars

\* the listener was called without first_event and then with first_event=False:
\* the first subscription has first_event set and its one event, the second
\* has not, neither has a callback, and no event carries first_event
C18_Witness ==
    /\ Len(events_to_listen) = 2
    /\ events_to_listen[1].first_event /\ ~events_to_listen[2].first_event
    /\ \A k \in 1..2 :
          /\ events_to_listen[k].callback = NoCallback
          /\ "first_event" \notin DOMAIN events_to_listen[k].event
    /\ "target_name" \in DOMAIN events_to_listen[1].event
    /\ Len(events_to_listen[1].matched_events) = 1

\* C19: start() on a listener whose thread is running raises nothing, leaves the
\* thread running and leaves the registry as it is.
C19_RestartIsNoOp ==
    [][(started /\ start) =>
          /\ ~thread_start_raises
          /\ started'
          /\ events_to_listen' = events_to_listen]_vars

\* the objects that carry the name in the collection of a mapped target_type
NamedObjects(target_type, target_name) ==
    LET coll == CASE target_type = PyStr("VmOrTemplate") -> "vms"
                  [] target_type = PyStr("Host") -> "hosts"
                  [] target_type = PyStr("Service") -> "services"
    IN  {o \in objects : o.coll = coll /\ target_name[1] = "str" /\ o.name = target_name[2]}

\* C20: process_id returns a numeric target as it is for every target_type and
\* filters no collection for it; for another target it raises TypeError when the
\* target_type is not one of TARGET_TYPES, ValueError when no object of the
\* collection of the target_type carries the name, and returns the id of one of
\* the objects that carry it otherwise.
C20_ProcessId ==
    (args.fn = "process_id" /\ ret.exc # "not called")
        => LET t == args.target_type
               n == args.target_name
           IN  IF n[1] \in {"int", "bool"}
               THEN ret.exc = "none" /\ ret.id = n /\ ~ret.queried
               ELSE IF t \notin {PyStr("VmOrTemplate"), PyStr("Host"), PyStr("Service")}
               THEN ret.exc = "TypeError"
               ELSE IF NamedObjects(t, n) = {}
               THEN ret.exc = "ValueError"
               ELSE /\ ret.exc = "none"
                    /\ \E o \in NamedObjects(t, n) : ret.id = PyInt(o.id)

\* a VM and a host are named vm1 and so is a second VM: process_id has returned
\* the id of the second VM for ('VmOrTemplate', 'vm1')
C20_Witness ==
    /\ args.fn = "process_id" /\ ret.exc = "none"
    /\ args.target_type = PyStr("VmOrTemplate")
    /\ args.target_name = PyStr("vm1")
    /\ Cardinality({o \in objects : o.name = "vm1"}) = 3
    /\ ret.id = PyInt(2)

\* C21: processed events are ignored next time.  No subscription holds the same
\* event id twice, a callback has run at most once for each event id of its
\* subscription, and the watermark is at least the id of every recorded event.
C21_ProcessedOnce ==
    \A exp_event \in AllExpEvents :
        /\ Cardinality(MatchedIds(exp_event)) = Len(exp_event.matched_events)
        /\ exp_event.cb_done <= Cardinality(MatchedIds(exp_event))
        /\ \A id \in MatchedIds(exp_event) :
              last_processed_id # None /\ last_processed_id[2] >= id[2]

\* C22: inside the polling loop the watermark changes only on a match.  A
\* returned event that is not compatible with the expectation it was fetched for
\* leaves the watermark, every matched_events and the callback counts as they
\* are.
C22_WatermarkOnlyOnMatch ==
    [][(match_event /\ ~matches(IterList[cur].event, build_from_entity(Head(portion))))
          => /\ last_processed_id' = last_processed_id
             /\ events_to_listen' = events_to_listen
             /\ iterList' = iterList]_vars

\* C23: the stop signal is checked between subscriptions.  stop() is called
\* while the first subscription of a pass is being processed; whichever way that
\* processing ends, no query is sent for a later subscription of the pass.
C23_StopBetweenSubscriptions ==
    [][(stop_event /\ (query_returns \/ query_raises)) => cur = 1]_vars

\* C25: after reset_events() has returned, the polling loop records no match,
\* runs no callback and moves the watermark for no subscription of the list
\* that was replaced, also when the call came during a pass.
C25_ResetStopsOldSubscriptions ==
    [][detached => ~match_event]_vars

\* C26: a stop request is never lost.  Once the stop signal is set on a running
\* listener it stays set for as long as the listener thread runs.
C26_StopNeverLost ==
    [][(stop_event /\ started /\ started') => stop_event']_vars

\* C27: the listener can be run again.  start() after stop() and the end of the
\* polling loop sets the watermark anew, clears the stop signal and starts a
\* new polling loop: started is true again.
C27_Restart ==
    [][(pc = "done" /\ start)
          => /\ last_processed_id' = set_last_record_latest
             /\ ~stop_event'
             /\ started']_vars

\* C24: start() sets the watermark to the highest id of event_streams, leaves it
\* unset when there is no event, clears the stop signal and starts the loop; no
\* event that was in event_streams when start() was called is ever recorded.
C24_StartSkipsOldEvents ==
    /\ [][start_noting =>
             /\ last_processed_id' = (IF Len(stream) = 0 THEN None ELSE PyInt(Len(stream)))
             /\ ~stop_event'
             /\ pc' = "while"]_vars
    /\ [](args.fn = "start" =>
             \A exp_event \in AllExpEvents :
                 \A id \in MatchedIds(exp_event) : id[2] > args.present)

\* start() was called when event_streams held one event; a second event with the
\* same content has arrived since, and a subscription has recorded the second
\* event and not the first
C24_Witness ==
    /\ args.fn = "start" /\ args.present = 1
    /\ Len(stream) = 2 /\ stream[1] = stream[2]
    /\ pc = "sleep"
    /\ \E i \in 1..Len(events_to_listen) : MatchedIds(events_to_listen[i]) = {PyInt(2)}

C29_QueryFilters ==
    (args.fn = "get_next_portion" /\ ret.exc # "not called" /\ ret.queried)
        => ret.ret =
             {e \in Entities :
                /\ IdGreater(e["id"], last_processed_id)
                /\ \A n \in {"event_type", "target_type", "target_id", "source"}
                            \cap DOMAIN args.evt :
                      args.evt[n].value # None => e[n] = args.evt[n].value}

\* C30: every event in a subscription's matched_events is equal to the
\* expectation on each of event_type, target_type, target_id and source for
\* which the expectation has a value other than None, also when that attribute
\* of the expectation has a cmp_func: an event the cmp_func accepts and that
\* is not equal is never recorded.
C30_RecordedEqualOnFilters ==
    \A exp_event \in AllExpEvents :
        \A k \in 1..Len(exp_event.matched_events) :
            \A n \in {"event_type", "target_type", "target_id", "source"}
                        \cap DOMAIN exp_event.event :
                exp_event.event[n].value # None
                    => exp_event.matched_events[k][n].value = exp_event.event[n].value

\* the listener started on an empty stream; a vm_delete event and then a
\* vm_create event arrived for target 1; the expectation whose event_type has a
\* cmp_func that accepts both has recorded the vm_create event alone
C30_Witness ==
    /\ args.fn = "start" /\ args.present = 0
    /\ Len(stream) = 2
    /\ stream[1] = PayloadDelete /\ stream[2] = Payload(1, "ok")
    /\ pc = "sleep"
    /\ \E i \in 1..Len(events_to_listen) :
          /\ "event_type" \in DOMAIN events_to_listen[i].event
          /\ events_to_listen[i].event["event_type"].cmp_func = "same_type"
          /\ ApplyCmp("same_type", events_to_listen[i].event["event_type"].value,
                      stream[1].event_type)
          /\ MatchedIds(events_to_listen[i]) = {PyInt(2)}

\* the expectation has neither a target_id nor a target_name
Untargeted(evt) == "target_id" \notin DOMAIN evt /\ "target_name" \notin DOMAIN evt

\* C31: for a subscription whose expectation has neither a target_id nor a
\* target_name no query is sent and no event is recorded, in any pass; while
\* such a subscription is registered check_expected_events() is False.
C31_UntargetedNeverMatches ==
    /\ [][(query_returns \/ query_raises) => ~Untargeted(IterList[cur].event)]_vars
    /\ [](\A exp_event \in AllExpEvents :
             Untargeted(exp_event.event) => exp_event.matched_events = <<>>)
    /\ []((\E i \in 1..Len(events_to_listen) : Untargeted(events_to_listen[i].event))
             => ~check_expected_events)

\* a pass has gone over an expectation with an event_type alone and then over
\* one with a target_id; a vm_create event was in the stream: the second one
\* has recorded it, the first one nothing
C31_Witness ==
    /\ pc = "sleep"
    /\ Len(stream) = 1 /\ stream[1] = Payload(1, "ok")
    /\ Len(events_to_listen) = 2
    /\ events_to_listen[1].event = ExpTypeOnly
    /\ events_to_listen[1].matched_events = <<>>
    /\ MatchedIds(events_to_listen[2]) = {PyInt(1)}
    /\ ~check_expected_events

\* C32: add_target_id changes the expectation only when target_name is there
\* and target_id is not.  With a target_id among the attributes, given by the
\* caller or set by an earlier call, process_id is not called (nothing is
\* raised, whatever target_type and the objects are) and the expectation stays
\* as it is, so a target_id once set stays the same in every later call, also
\* when the name by now stands for another id.
C32_ResolveOnlyUnresolved ==
    [][call_add_target_id =>
          /\ ("target_id" \in DOMAIN args.evt \/ "target_name" \notin DOMAIN args.evt)
                => (ret'.exc = "none" /\ args'.evt = args.evt)
          /\ \A n \in DOMAIN args.evt \ {"target_id"} :
                n \in DOMAIN args'.evt /\ args'.evt[n] = args.evt[n]
          /\ DOMAIN args'.evt \subseteq DOMAIN args.evt \cup {"target_id"}]_vars

\* the first call has set target_id to 1 for the name vm1; a second VM of that
\* name, with id 2, exists when the second call is made, and target_id is 1
\* after it
C32_Witness ==
    /\ args.fn = "add_target_id" /\ args.calls = 2
    /\ ret.exc = "none"
    /\ "target_name" \in DOMAIN args.evt /\ args.evt["target_name"].value = PyStr("vm1")
    /\ "target_id" \in DOMAIN args.evt /\ args.evt["target_id"].value = PyInt(1)
    /\ [coll |-> "vms", name |-> "vm1", id |-> 2] \in objects

\* C33: a call of listen_to with a value that is not an Event raises and leaves
\* the registry as it was before the call: no event of that call is registered,
\* be it before or after the value that is not an Event.
C33_ListenToAllOrNothing ==
    [][\A c \in MixedPool :
         (listen_to(c.evts, c.kwargs) /\ \E k \in 1..Len(c.evts) : c.evts[k].cls # "Event")
            => (listen_to_raises(c.evts) /\ events_to_listen' = events_to_listen)]_vars

\* the nine default names
NineNames ==
    {"created_on", "event_type", "href", "id", "message", "source", "target_id",
     "target_type", "timestamp"}

\* C34: after any sequence of add_attrs, build_from_entity and add_target_id
\* every name an Event stores is one of the nine default names or target_name,
\* and it is stored under that name.  add_attrs with one of these names stores
\* the attribute in place of the one stored before and leaves the others;
\* add_attrs with another name raises nothing and leaves the Event as it was.
\* An Event created empty and built from a record holds the nine default names
\* and no other, with the fields of the record, None for a missing one.
C34_StoredNames ==
    /\ [](args.fn = "Event" =>
             /\ DOMAIN args.evt \subseteq NineNames \cup {"target_name"}
             /\ \A n \in DOMAIN args.evt : args.evt[n].name = n)
    /\ [][\A attr \in AttrPool :
             call_add_attrs(attr) =>
                /\ ret'.exc = "none"
                /\ IF attr.name \in NineNames \cup {"target_name"}
                   THEN /\ DOMAIN args'.evt = DOMAIN args.evt \cup {attr.name}
                        /\ args'.evt[attr.name] = attr
                        /\ \A n \in DOMAIN args.evt \ {attr.name} :
                              args'.evt[n] = args.evt[n]
                   ELSE args'.evt = args.evt]_vars
    /\ [][\A event_entity \in RecordPool :
             (call_build_from_entity(event_entity) /\ args.evt = EmptyEvent) =>
                /\ ret'.exc = "none"
                /\ DOMAIN args'.evt = NineNames
                /\ \A n \in NineNames :
                      args'.evt[n].value =
                         (IF n \in DOMAIN event_entity THEN event_entity[n] ELSE None)
                /\ DOMAIN event_entity = EntityFields
                      => args'.evt = build_from_entity(event_entity)]_vars

\* target_name and target_type were added, add_target_id has set target_id to
\* the id of the object, and the attribute bogus added last is not stored
C34_Witness ==
    /\ args.fn = "Event" /\ args.calls = 4
    /\ ret.exc = "none" /\ ret.op = "add_attrs" /\ ret.name = "bogus"
    /\ DOMAIN args.evt = {"target_name", "target_type", "target_id"}
    /\ args.evt["target_id"].value = PyInt(1)

====
